---- MODULE Spec2Model ----
(***************************************************************************)
(* LinoSPAD2, functions/cross_talk.py: collect_cross_talk and              *)
(* calculate_dark_count_rate as state machines over a data directory.      *)
(*                                                                         *)
(* Python offsets are kept 0-based as values (pix1, cycle_ends hold the    *)
(* numbers numpy returns); TLA+ sequences are 1-based, so the element at   *)
(* offset o of a sequence s is s[o + 1].                                   *)
(***************************************************************************)
EXTENDS Integers, Sequences, FiniteSets, TLC

(***************************************************************************)
(* Bounds of the model.                                                    *)
(***************************************************************************)
\* files in the data directory
MaxFiles == 2
\* acquisition cycles in one file
MaxCycles == 2

\* the cycles of a synthetic file
SynthCycles == 3

(***************************************************************************)
(* Program constants.                                                      *)
(***************************************************************************)
\* np.arange(256), range(256)
NumPixels == 256
\* reshape(64, 4): hardware channels (TDCs)
NumChannels == 64
\* reshape(64, 4): pixels multiplexed on one channel
PixelsPerChannel == 4
\* the cycle-end marker, data_all[0].T[0] == -2
Sentinel == -2

(***************************************************************************)
(* Typed arguments: Python values carry their type, and the parameter      *)
(* checks are isinstance tests.                                            *)
(***************************************************************************)
PyStr(v) == [type |-> "str", val |-> v]

PyInt(v) == [type |-> "int", val |-> v]

isinstance_str(x) == x.type = "str"

\* firmware_version == "2212s": a non-string never equals a string
EqStr(x, s) == x.type = "str" /\ x.val = s

(***************************************************************************)
(* numpy helpers, computed as numpy computes them.                         *)
(***************************************************************************)
Abs(x) == IF x < 0 THEN -x ELSE x

Min(x, y) == IF x < y THEN x ELSE y

Range(s) == {s[n] : n \in DOMAIN s}

\* np.arange(n), as a function on offsets 0..n-1
arange(n) == [x \in 0..(n - 1) |-> x]

\* a.reshape(rows, cols): row-major
reshape(a, rows, cols) ==
    [r \in 0..(rows - 1) |-> [c \in 0..(cols - 1) |-> a[r * cols + c]]]

\* m.T of a rows x cols matrix
transpose(m, rows, cols) ==
    [c \in 0..(cols - 1) |-> [r \in 0..(rows - 1) |-> m[r][c]]]

\* rows.T[f]: column f (1: pixel index, 2: timestamp) of a record array
Col(rows, f) == [n \in 1..Len(rows) |-> rows[n][f]]

\* np.where(col == v)[0] / np.argwhere(col == v): ascending 0-based offsets
RECURSIVE WhereFrom(_, _, _)
WhereFrom(col, v, n) ==
    IF n > Len(col) THEN <<>>
    ELSE (IF col[n] = v THEN <<n - 1>> ELSE <<>>) \o WhereFrom(col, v, n + 1)

where_eq(col, v) == WhereFrom(col, v, 1)

\* col[idx]: fancy indexing by a sequence of 0-based offsets
take(col, idx) == [n \in 1..Len(idx) |-> col[idx[n] + 1]]

\* len(np.where(col > 0)[0])
count_positive(col) == Cardinality({n \in DOMAIN col : col[n] > 0})

(***************************************************************************)
(* The pixel-coordinate table: pix_coor[channel][index] = pixel.           *)
(***************************************************************************)
\* mutant: the '2212s' table built like the '2212b' one
pix_coor_2212s_as_2212b ==
    reshape(arange(NumPixels), NumChannels, PixelsPerChannel)

\* np.arange(256).reshape(4, 64).T
pix_coor_2212s ==
    transpose(reshape(arange(NumPixels), PixelsPerChannel, NumChannels),
              PixelsPerChannel, NumChannels)

\* np.arange(256).reshape(64, 4)
pix_coor_2212b == reshape(arange(NumPixels), NumChannels, PixelsPerChannel)

Recognized(fw) == EqStr(fw, "2212s") \/ EqStr(fw, "2212b")

pix_coor_of(fw) == IF EqStr(fw, "2212s") THEN pix_coor_2212s ELSE pix_coor_2212b

\* np.argwhere(pix_coor == p): the positions holding p
argwhere(pc_tab, p) ==
    {ck \in (0..(NumChannels - 1)) \X (0..(PixelsPerChannel - 1)) :
        pc_tab[ck[1]][ck[2]] = p}

\* np.argwhere(pix_coor == p)[0]: the first position in row-major order
argwhere_first(pc_tab, p) ==
    CHOOSE ck \in argwhere(pc_tab, p) :
        \A o \in argwhere(pc_tab, p) :
            ck[1] < o[1] \/ (ck[1] = o[1] /\ ck[2] <= o[2])

(***************************************************************************)
(* The unpacker's output (LinoSPAD2.functions.unpack.unpack_binary_data),  *)
(* one record array per channel.  A row is <<pixel index in the channel,   *)
(* timestamp>>; an invalid record has timestamp -1; every cycle is closed  *)
(* by one sentinel row, at the same offset in every channel.  Only         *)
(* channels 0 and 1 of a file fire; the other channels hold invalid        *)
(* records only.                                                           *)
(***************************************************************************)
SentinelRow == <<Sentinel, Sentinel>>

InvalidRow == <<0, -1>>

\* One acquisition cycle of channels 0 and 1 (rows without the sentinel).
CyclePatterns ==
    { [c0 |-> << <<0, 1>>, <<1, 2>> >>, c1 |-> << <<0, 3>>, <<0, -1>> >>],
      [c0 |-> << <<1, 1>>, <<0, -1>> >>, c1 |-> << <<0, 1>>, <<0, 2>> >>],
      [c0 |-> << <<0, 2>>, <<0, 3>> >>, c1 |-> << <<0, -1>>, <<0, -1>> >>],
      [c0 |-> << <<1, 3>>, <<1, 2>> >>, c1 |-> << <<0, 2>>, <<0, 1>> >>],
      [c0 |-> << <<0, -1>>, <<0, -1>> >>, c1 |-> << <<0, 2>>, <<0, -1>> >>] }

\* The end-to-end scenario: A = [100, 5100, 9999], B = [150, 5200], one cycle.
ScenarioPattern ==
    [c0 |-> << <<0, 100>>, <<0, 5100>>, <<0, 9999>>, <<1, 150>>, <<1, 5200>> >>,
     c1 |-> << <<0, -1>>, <<0, -1>>, <<0, -1>>, <<0, -1>>, <<0, -1>> >>]

\* The record arrays of a file made of the given cycles.
RECURSIVE FileOf(_)
FileOf(cycles) ==
    IF cycles = <<>> THEN [c0 |-> <<>>, c1 |-> <<>>]
    ELSE LET rest == FileOf(Tail(cycles))
         IN  [c0 |-> Head(cycles).c0 \o <<SentinelRow>> \o rest.c0,
              c1 |-> Head(cycles).c1 \o <<SentinelRow>> \o rest.c1]

CyclesUpTo(n) == UNION {[1..m -> CyclePatterns] : m \in 1..n}

\* Files of one cycle: the files of a directory that holds several.
CoarseContents == {FileOf(cs) : cs \in CyclesUpTo(1)}

\* Files of up to MaxCycles cycles: the file of a directory that holds one.
DetailedContents ==
    {FileOf(cs) : cs \in CyclesUpTo(MaxCycles)} \cup {FileOf(<<ScenarioPattern>>)}

\* What a file of a directory of n files may hold.
ContentsFor(n) == IF n = 1 THEN DetailedContents ELSE CoarseContents

\* data_all[c] of an unpacked file d
channel(d, c) ==
    IF c = 0 THEN d.c0
    ELSE IF c = 1 THEN d.c1
    ELSE [n \in 1..Len(d.c0) |->
            IF d.c0[n][1] = Sentinel THEN SentinelRow ELSE InvalidRow]

NoData == [c0 |-> <<>>, c1 |-> <<>>]

(***************************************************************************)
(* The raw file and its decoding.  A file is a sequence of fixed-width     *)
(* words.  A word with the valid flag set holds a pixel-address field (the *)
(* pixel's index in its channel) above a timestamp-code field; a word      *)
(* without the flag is invalid, and one reserved pattern marks the end of  *)
(* a cycle.  Within a cycle the words come channel after channel,          *)
(* `timestamps` words for each.  Codes pass through uncalibrated.          *)
(***************************************************************************)
\* the number of timestamp codes a word can hold
TimestampCodeRange == 16384

ValidFlag == PixelsPerChannel * TimestampCodeRange

\* the reserved cycle-end pattern: no valid flag, every field bit set
SentinelWord == ValidFlag - 1

\* one word decoded to a row <<pixel index in the channel, timestamp>>
decode_word(w) ==
    IF w < ValidFlag \/ w >= 2 * ValidFlag THEN InvalidRow
    ELSE <<(w \div TimestampCodeRange) % PixelsPerChannel, w % TimestampCodeRange>>

\* mutant: the words of a cycle taken as interleaved between the channels
channel_of_word_interleaved(k, timestamps) == k % 2

\* the channel of the k-th word (from 0) of a cycle
channel_of_word(k, timestamps) == k \div timestamps

\* the words from the n-th on, k words into the current cycle
RECURSIVE unpack_from(_, _, _, _, _)
unpack_from(words, timestamps, n, k, acc) ==
    IF n > Len(words) THEN acc
    ELSE IF words[n] = SentinelWord
    THEN unpack_from(words, timestamps, n + 1, 0,
                     [c0 |-> Append(acc.c0, SentinelRow),
                      c1 |-> Append(acc.c1, SentinelRow)])
    ELSE LET c == channel_of_word(k, timestamps)
             row == decode_word(words[n])
         IN  unpack_from(words, timestamps, n + 1, k + 1,
                         IF c = 0 THEN [acc EXCEPT !.c0 = Append(@, row)]
                         ELSE IF c = 1 THEN [acc EXCEPT !.c1 = Append(@, row)]
                         ELSE acc)

\* unpack_binary_data(file, ..., timestamps, ...) of a two-channel file
unpack_binary_data(words, timestamps) ==
    unpack_from(words, timestamps, 1, 0, NoData)

\* the word a synthetic file holds for a row
encode_row(row) ==
    IF row[2] < 0 THEN 0 ELSE ValidFlag + row[1] * TimestampCodeRange + row[2]

\* the words of a synthetic file made of the given cycles
RECURSIVE pack(_)
pack(cycles) ==
    IF cycles = <<>> THEN <<>>
    ELSE [n \in 1..Len(Head(cycles).c0) |-> encode_row(Head(cycles).c0[n])]
         \o [n \in 1..Len(Head(cycles).c1) |-> encode_row(Head(cycles).c1[n])]
         \o <<SentinelWord>> \o pack(Tail(cycles))

\* the cycles a synthetic file is made of: the cycle patterns, and one that
\* fills the fields of its words
SyntheticPatterns ==
    CyclePatterns \cup
        {[c0 |-> << <<3, TimestampCodeRange - 1>>, <<0, 9999>> >>,
          c1 |-> << <<2, 1>>, <<3, TimestampCodeRange - 1>> >>]}

(***************************************************************************)
(* The difference engine (LinoSPAD2.functions.calc_diff).  For each cycle  *)
(* both series are restricted to the cycle's index range                   *)
(* boundaries[c] .. boundaries[c + 1] - 1, and every difference b - a with *)
(* |b - a| <= window is kept.                                              *)
(***************************************************************************)
\* the offsets lo .. min(hi, n) - 1 of a series of length n: series[lo:hi]
slice_offsets(lo, hi, n) ==
    IF lo < Min(hi, n) THEN [m \in 1..(Min(hi, n) - lo) |-> lo + m - 1] ELSE <<>>

\* every <<offset in a, offset in b>> of two offset sequences, a-major
cross(I, K) ==
    [m \in 1..(Len(I) * Len(K)) |->
        <<I[((m - 1) \div Len(K)) + 1], K[((m - 1) % Len(K)) + 1]>>]

in_window(d, window) == Abs(d) <= window

\* the qualifying <<offset in a, offset in b>> pairs of cycles c, c + 1, ...
RECURSIVE difference_pairs_from(_, _, _, _, _)
difference_pairs_from(a, b, boundaries, window, c) ==
    IF c >= Len(boundaries) THEN <<>>
    ELSE SelectSeq(cross(slice_offsets(boundaries[c], boundaries[c + 1], Len(a)),
                         slice_offsets(boundaries[c], boundaries[c + 1], Len(b))),
                   LAMBDA p : in_window(b[p[2] + 1] - a[p[1] + 1], window))
         \o difference_pairs_from(a, b, boundaries, window, c + 1)

difference_pairs(a, b, boundaries, window) ==
    difference_pairs_from(a, b, boundaries, window, 1)

\* calc_diff.calculate_differences_2212(data1, data2, cycle_ends, delta_window)
calculate_differences_2212(a, b, boundaries, window) ==
    LET ps == difference_pairs(a, b, boundaries, window)
    IN  [n \in 1..Len(ps) |-> b[ps[n][2] + 1] - a[ps[n][1] + 1]]

(***************************************************************************)
(* Inputs of a run.                                                        *)
(***************************************************************************)
\* glob.glob("*.dat*") of a directory of n files
FileNames == <<"a.dat", "b.dat", "c.dat", "d.dat">>

Listing(n) == SubSeq(FileNames, 1, n)

Firmwares == {PyStr("2212s"), PyStr("2212b"), PyStr("9999b"), PyInt("2212")}

Daughterboards == {PyStr("NL11"), PyInt("11")}

Motherboards == {PyStr("#33"), PyInt("33")}

\* pixels: pixels[0] is the reference pixel of every pair
PixelLists == {<<0, 1>>, <<1, 0, 4>>, <<0, 0, 4>>, <<0, 4, 1>>}

\* delta_window
Windows == {1, 200}

\* utils.apply_mask(daughterboard_number, motherboard_number): masked pixels
Masks == {{}, {0}, {1, 4}}

(***************************************************************************)
(* The summary table and the output folder "cross_talk_data".              *)
(***************************************************************************)
\* dic / pd.DataFrame(dic)
Table(f, p1, p2, t1, t2, d, ct) ==
    [File |-> f, Pixel1 |-> p1, Pixel2 |-> p2, Timestamps1 |-> t1,
     Timestamps2 |-> t2, Deltas |-> d, CT |-> ct]

\* "CT_data_{}-{}.csv".format(files[0], files[-1])
artifact_name(fs) == <<"CT_data", fs[1], fs[Len(fs)]>>

\* an artifact left by an earlier run
OldTable ==
    Table(<<"old.dat">>, <<0>>, <<1>>, <<1>>, <<1>>, <<0>>, << <<0, 2>> >>)

\* mutant: an artifact of that name is kept as it is
to_csv_keep_existing(dir, name, table) ==
    IF \E a \in dir : a.name = name THEN dir
    ELSE dir \cup {[name |-> name, table |-> table]}

\* DataFrame.to_csv(name): creates or overwrites the file of that name
to_csv(dir, name, table) ==
    {a \in dir : a.name # name} \cup {[name |-> name, table |-> table]}

\* glob.glob("*CT_data_{}-{}.csv*") == []
no_artifact(dir, name) == \A a \in dir : a.name # name

(***************************************************************************)
(* Decisions of collect_cross_talk and calculate_dark_count_rate.          *)
(***************************************************************************)
\* mutant: motherboard_number is not checked
cct_types_ok_daughterboard_only(db, mb) == isinstance_str(db)

\* collect_cross_talk: the parameter type check
cct_types_ok(db, mb) == isinstance_str(db) /\ isinstance_str(mb)

\* calculate_dark_count_rate: the parameter type check
dcr_types_ok(fw, db, mb) ==
    isinstance_str(fw) /\ isinstance_str(db) /\ isinstance_str(mb)

\* mutant: a pair of equal pixels is not skipped
skip_pair_strict(pj, p0) == pj < p0

\* if pixels[j] <= pixels[0]: continue
skip_pair(pj, p0) == pj <= p0

\* mutant: the check for an empty first pixel is missing
no_valid_never(n) == FALSE

\* if timestamps_pix1 == 0: continue
no_valid(n) == n = 0

\* np.argwhere(pix_coor == p)[0] of every pixel, for either table
coordinates_2212s ==
    [p \in 0..(NumPixels - 1) |-> argwhere_first(pix_coor_2212s, p)]

coordinates_2212b ==
    [p \in 0..(NumPixels - 1) |-> argwhere_first(pix_coor_2212b, p)]

\* tdc, pix_c = np.argwhere(pix_coor == p)[0]
coordinates(fw, p) ==
    IF EqStr(fw, "2212s") THEN coordinates_2212s[p] ELSE coordinates_2212b[p]

\* pix = np.where(data_all[tdc].T[0] == pix_c)[0]
pixel_rows(d, tdc, pix_c) == where_eq(Col(channel(d, tdc), 1), pix_c)

\* data_all[tdc].T[1][pix]
pixel_data(d, tdc, pix) == take(Col(channel(d, tdc), 2), pix)

\* mutant: the sentinel offsets alone, offset 0 not inserted
cycle_ends_of_sentinels_only(d) == where_eq(Col(channel(d, 0), 1), Sentinel)

\* cycle_ends = np.insert(np.argwhere(data_all[0].T[0] == -2), 0, 0)
cycle_ends_of(d) == <<0>> \o where_eq(Col(channel(d, 0), 1), Sentinel)

\* mutant: the full width of the window is passed instead of its half width
engine_call_wide(d1, d2, ce, window) ==
    calculate_differences_2212(d1, d2, ce, 2 * window)

\* mutant: the two series are passed in the wrong order
engine_call_swapped(d1, d2, ce, window) ==
    calculate_differences_2212(d2, d1, ce, window)

\* deltas = cd.calculate_differences_2212(data1, data2, cycle_ends, delta_window)
engine_call(d1, d2, ce, window) == calculate_differences_2212(d1, d2, ce, window)

\* mutant: the rate as a fraction, not as a percentage
ct_of_fraction(n_deltas, n1, n2) == <<n_deltas, n1 + n2>>

\* ct = len(deltas) * 100 / (timestamps_pix1 + timestamps_pix2), as <<num, den>>
ct_of(n_deltas, n1, n2) == <<n_deltas * 100, n1 + n2>>

(***************************************************************************)
(* State.                                                                  *)
(***************************************************************************)
VARIABLES
    entry,                  \* the function that was called
    pixels, daughterboard_number, motherboard_number, firmware_version,
    delta_window,           \* the arguments
    rewrite,                \* the run's caching option (no parameter reads it)
    out_dir_existed, out_dir_before, \* the output folder as the call found it
    dir_files,              \* the "*.dat*" files of the data directory
    out_dir_exists, out_dir, \* the folder "cross_talk_data" and its artifacts
    cwd, listed,            \* os.chdir / glob.glob done
    pc, error,              \* position in the function; the exception raised
    files, it, i,           \* glob result, the loop iterator, the loop variable
    data_all, tdc1, pix_c1, pix1, data1, cycle_ends,
    j, tdc2, pix_c2, pix2, data2, deltas,
    file_name_list, pix1_list, pix2_list, timestamps_list1, timestamps_list2,
    deltas_list, ct_list,
    unpacked,               \* probe: <<file, data>> of every unpack call
    csv_writes,             \* probe: to_csv calls
    valid_per_pixel, dcr,
    known_cycles, file_words, \* a synthetic file: its cycles and its raw words
    units, writers          \* per-file work units; the units writing the lists

args == <<entry, pixels, daughterboard_number, motherboard_number,
          firmware_version, delta_window, rewrite, dir_files,
          out_dir_existed, out_dir_before>>

fs_vars == <<out_dir_exists, out_dir, csv_writes>>

file_vars == <<data_all, tdc1, pix_c1, pix1, data1, cycle_ends, unpacked>>

pair_vars == <<tdc2, pix_c2, pix2, data2, deltas>>

lists == <<file_name_list, pix1_list, pix2_list, timestamps_list1,
           timestamps_list2, deltas_list, ct_list>>

dcr_vars == <<valid_per_pixel, dcr>>

synth_vars == <<known_cycles, file_words>>

unit_vars == <<units, writers>>

vars == <<args, fs_vars, cwd, listed, pc, error, files, it, i, file_vars, j,
          pair_vars, lists, dcr_vars, synth_vars, unit_vars>>

(***************************************************************************)
(* The state at the call.                                                  *)
(***************************************************************************)
InitLocals ==
    /\ cwd = "start" /\ listed = FALSE /\ pc = "start" /\ error = "none"
    /\ files = <<>> /\ it = 0 /\ i = 0
    /\ data_all = NoData /\ tdc1 = 0 /\ pix_c1 = 0
    /\ pix1 = <<>> /\ data1 = <<>> /\ cycle_ends = <<>>
    /\ j = 0 /\ tdc2 = 0 /\ pix_c2 = 0
    /\ pix2 = <<>> /\ data2 = <<>> /\ deltas = <<>>
    /\ file_name_list = <<>> /\ pix1_list = <<>> /\ pix2_list = <<>>
    /\ timestamps_list1 = <<>> /\ timestamps_list2 = <<>>
    /\ deltas_list = <<>> /\ ct_list = <<>>
    /\ unpacked = <<>> /\ csv_writes = 0
    /\ valid_per_pixel = <<>> /\ dcr = <<>>
    /\ file_words = <<>>
    /\ writers = {}

\* the output folder before the run: absent, empty, or holding the artifact
\* of an earlier run on the same files
InitOutDir ==
    \/ out_dir_exists = FALSE /\ out_dir = {}
    \/ out_dir_exists = TRUE /\ out_dir = {}
    \/ /\ dir_files # <<>>
       /\ out_dir_exists = TRUE
       /\ out_dir = {[name |-> artifact_name(dir_files), table |-> OldTable]}

Init ==
    /\ \E n \in 0..MaxFiles : dir_files = Listing(n)
    /\ daughterboard_number \in Daughterboards
    /\ motherboard_number \in Motherboards
    /\ firmware_version \in Firmwares
    /\ \/ /\ entry = "collect_cross_talk"
          /\ pixels \in PixelLists
          /\ delta_window \in Windows
          /\ rewrite \in BOOLEAN
          /\ InitOutDir
       \/ /\ entry = "calculate_dark_count_rate"
          /\ pixels = <<>> /\ delta_window = 0 /\ rewrite = FALSE
          /\ out_dir_exists = FALSE /\ out_dir = {}
    /\ out_dir_existed = out_dir_exists
    /\ out_dir_before = out_dir
    /\ known_cycles = <<>> /\ units = <<>>
    /\ InitLocals

(***************************************************************************)
(* collect_cross_talk.                                                     *)
(***************************************************************************)
\* the parameter type check, then the seven empty lists
CheckTypes ==
    /\ entry = "collect_cross_talk" /\ pc = "start"
    /\ IF cct_types_ok(daughterboard_number, motherboard_number)
       THEN pc' = "chdir" /\ error' = error
       ELSE pc' = "done" /\ error' = "TypeError"
    /\ file_name_list' = <<>> /\ pix1_list' = <<>> /\ pix2_list' = <<>>
    /\ timestamps_list1' = <<>> /\ timestamps_list2' = <<>>
    /\ deltas_list' = <<>> /\ ct_list' = <<>>
    /\ UNCHANGED <<args, synth_vars, unit_vars, fs_vars, cwd, listed, files, it, i, file_vars, j,
                   pair_vars, dcr_vars>>

\* os.chdir(path)
ChangeDir ==
    /\ entry = "collect_cross_talk" /\ pc = "chdir"
    /\ cwd' = "path"
    /\ pc' = "glob"
    /\ UNCHANGED <<args, synth_vars, unit_vars, fs_vars, listed, error, files, it, i, file_vars, j,
                   pair_vars, lists, dcr_vars>>

\* files = glob.glob("*.dat*")
ListFiles ==
    /\ entry = "collect_cross_talk" /\ pc = "glob"
    /\ files' = dir_files
    /\ listed' = TRUE
    /\ it' = 0
    /\ pc' = "file"
    /\ UNCHANGED <<args, synth_vars, unit_vars, fs_vars, cwd, error, i, file_vars, j, pair_vars,
                   lists, dcr_vars>>

\* for i, file in enumerate(files): the firmware branch, the unpacking, the
\* series of pixels[0] and the cycle boundaries
NextFile ==
    /\ entry = "collect_cross_talk" /\ pc = "file"
    /\ IF it >= Len(files)
       THEN /\ pc' = "save"
            /\ UNCHANGED <<error, it, i, file_vars, j>>
       ELSE /\ i' = it
            /\ it' = it + 1
            /\ IF ~Recognized(firmware_version)
               THEN /\ pc' = "done" /\ error' = "SystemExit"
                    /\ UNCHANGED <<file_vars, j>>
               ELSE /\ \E d \in ContentsFor(Len(files)) :
                          LET ck == coordinates(firmware_version, pixels[1])
                              pix == pixel_rows(d, ck[1], ck[2])
                          IN  /\ data_all' = d
                              /\ unpacked' = Append(unpacked, <<files[it + 1], d>>)
                              /\ tdc1' = ck[1] /\ pix_c1' = ck[2]
                              /\ pix1' = pix
                              /\ data1' = pixel_data(d, ck[1], pix)
                              /\ cycle_ends' = cycle_ends_of(d)
                    /\ j' = 1
                    /\ pc' = "pair" /\ error' = error
    /\ UNCHANGED <<args, synth_vars, unit_vars, fs_vars, cwd, listed, files, pair_vars, lists, dcr_vars>>

\* for j in range(1, len(pixels)): skip the pair, or build the second series
\* and call the difference engine
NextPair ==
    /\ entry = "collect_cross_talk" /\ pc = "pair"
    /\ IF j >= Len(pixels)
       THEN pc' = "file" /\ UNCHANGED <<j, pair_vars>>
       ELSE IF skip_pair(pixels[j + 1], pixels[1])
       THEN pc' = "pair" /\ j' = j + 1 /\ UNCHANGED pair_vars
       ELSE /\ LET ck == coordinates(firmware_version, pixels[j + 1])
                    pix == pixel_rows(data_all, ck[1], ck[2])
                IN  /\ tdc2' = ck[1] /\ pix_c2' = ck[2]
                    /\ pix2' = pix
                    /\ data2' = pixel_data(data_all, ck[1], pix)
                    /\ deltas' = engine_call(data1,
                                             pixel_data(data_all, ck[1], pix),
                                             cycle_ends, delta_window)
            /\ pc' = "record" /\ j' = j
    /\ UNCHANGED <<args, synth_vars, unit_vars, fs_vars, cwd, listed, error, files, it, i, file_vars,
                   lists, dcr_vars>>

\* mutant: the table saved inside the pair loop, after every row
RecordPair_saving_in_loop ==
    /\ entry = "collect_cross_talk" /\ pc = "record"
    /\ IF no_valid(count_positive(data1))
       THEN UNCHANGED <<lists, fs_vars>>
       ELSE /\ file_name_list' = Append(file_name_list, files[i + 1])
            /\ pix1_list' = Append(pix1_list, pixels[1])
            /\ pix2_list' = Append(pix2_list, pixels[j + 1])
            /\ timestamps_list1' = Append(timestamps_list1, count_positive(data1))
            /\ timestamps_list2' = Append(timestamps_list2, count_positive(data2))
            /\ deltas_list' = Append(deltas_list, Len(deltas))
            /\ ct_list' = Append(ct_list,
                                 ct_of(Len(deltas), count_positive(data1),
                                       count_positive(data2)))
            /\ out_dir' = to_csv(out_dir, artifact_name(files),
                                 Table(file_name_list', pix1_list', pix2_list',
                                       timestamps_list1', timestamps_list2',
                                       deltas_list', ct_list'))
            /\ csv_writes' = csv_writes + 1
            /\ UNCHANGED out_dir_exists
    /\ j' = j + 1
    /\ pc' = "pair"
    /\ UNCHANGED <<args, synth_vars, unit_vars, cwd, listed, error, files, it, i,
                   file_vars, pair_vars, dcr_vars>>

\* the valid-timestamp counts, the cross-talk rate and the seven appends
RecordPair ==
    /\ entry = "collect_cross_talk" /\ pc = "record"
    /\ IF no_valid(count_positive(data1))
       THEN UNCHANGED lists
       ELSE /\ file_name_list' = Append(file_name_list, files[i + 1])
            /\ pix1_list' = Append(pix1_list, pixels[1])
            /\ pix2_list' = Append(pix2_list, pixels[j + 1])
            /\ timestamps_list1' = Append(timestamps_list1, count_positive(data1))
            /\ timestamps_list2' = Append(timestamps_list2, count_positive(data2))
            /\ deltas_list' = Append(deltas_list, Len(deltas))
            /\ ct_list' = Append(ct_list,
                                 ct_of(Len(deltas), count_positive(data1),
                                       count_positive(data2)))
    /\ j' = j + 1
    /\ pc' = "pair"
    /\ UNCHANGED <<args, synth_vars, unit_vars, fs_vars, cwd, listed, error, files, it, i, file_vars,
                   pair_vars, dcr_vars>>

\* the "Saving data as ..." message, which formats files[0] and files[-1]
SaveMessage ==
    /\ entry = "collect_cross_talk" /\ pc = "save"
    /\ IF files = <<>>
       THEN pc' = "done" /\ error' = "IndexError"
       ELSE pc' = "outdir" /\ error' = error
    /\ UNCHANGED <<args, synth_vars, unit_vars, fs_vars, cwd, listed, files, it, i, file_vars, j,
                   pair_vars, lists, dcr_vars>>

\* os.chdir("cross_talk_data"), creating the folder when it is missing
EnterOutDir ==
    /\ entry = "collect_cross_talk" /\ pc = "outdir"
    /\ out_dir_exists' = TRUE
    /\ cwd' = "cross_talk_data"
    /\ pc' = "write"
    /\ UNCHANGED <<args, synth_vars, unit_vars, out_dir, csv_writes, listed, error, files, it, i,
                   file_vars, j, pair_vars, lists, dcr_vars>>

\* cross_talk_data.to_csv(...), in both branches of the glob test
WriteCsv ==
    /\ entry = "collect_cross_talk" /\ pc = "write"
    /\ LET name == artifact_name(files)
           cross_talk_data ==
               Table(file_name_list, pix1_list, pix2_list, timestamps_list1,
                     timestamps_list2, deltas_list, ct_list)
       IN  IF no_artifact(out_dir, name)
           THEN out_dir' = to_csv(out_dir, name, cross_talk_data)
           ELSE out_dir' = to_csv(out_dir, name, cross_talk_data)
    /\ csv_writes' = csv_writes + 1
    /\ pc' = "done"
    /\ UNCHANGED <<args, synth_vars, unit_vars, out_dir_exists, cwd, listed, error, files, it, i,
                   file_vars, j, pair_vars, lists, dcr_vars>>

(***************************************************************************)
(* calculate_dark_count_rate.                                              *)
(***************************************************************************)
\* np.zeros(256)
zeros(n) == [p \in 0..(n - 1) |-> 0]

\* the sum of v[lo..hi]
RECURSIVE sum_range(_, _, _)
sum_range(v, lo, hi) ==
    IF lo > hi THEN 0
    ELSE IF lo = hi THEN v[lo]
    ELSE sum_range(v, lo, (lo + hi) \div 2)
             + sum_range(v, ((lo + hi) \div 2) + 1, hi)

\* for i in range(256): valid_per_pixel[i] += the valid records of pixel i
count_valid(v, d, fw) ==
    [p \in 0..(NumPixels - 1) |->
        LET ck == coordinates(fw, p)
            ind == pixel_rows(d, ck[1], ck[2])
        IN  v[p] + count_positive(pixel_data(d, ck[1], ind))]

\* valid_per_pixel[mask] = 0
apply_mask(v, mask) == [p \in DOMAIN v |-> IF p \in mask THEN 0 ELSE v[p]]

\* np.average(valid_per_pixel) / len(files), as <<num, den>>
average_rate(v, n_files) ==
    <<sum_range(v, 0, NumPixels - 1), NumPixels * n_files>>

\* the parameter type check
DcrCheckTypes ==
    /\ entry = "calculate_dark_count_rate" /\ pc = "start"
    /\ IF dcr_types_ok(firmware_version, daughterboard_number, motherboard_number)
       THEN pc' = "chdir" /\ error' = error
       ELSE pc' = "done" /\ error' = "TypeError"
    /\ UNCHANGED <<args, synth_vars, unit_vars, fs_vars, cwd, listed, files, it, i, file_vars, j,
                   pair_vars, lists, dcr_vars>>

\* os.chdir(path)
DcrChangeDir ==
    /\ entry = "calculate_dark_count_rate" /\ pc = "chdir"
    /\ cwd' = "path"
    /\ pc' = "glob"
    /\ UNCHANGED <<args, synth_vars, unit_vars, fs_vars, listed, error, files, it, i, file_vars, j,
                   pair_vars, lists, dcr_vars>>

\* files = glob.glob("*.dat*"); valid_per_pixel = np.zeros(256)
DcrListFiles ==
    /\ entry = "calculate_dark_count_rate" /\ pc = "glob"
    /\ files' = dir_files
    /\ listed' = TRUE
    /\ it' = 0
    /\ valid_per_pixel' = zeros(NumPixels)
    /\ pc' = "file"
    /\ UNCHANGED <<args, synth_vars, unit_vars, fs_vars, cwd, error, i, file_vars, j, pair_vars,
                   lists, dcr>>

\* mutant: the file loop counted by the variable the pixel loop overwrites
DcrNextFile_shared_counter ==
    /\ entry = "calculate_dark_count_rate" /\ pc = "file"
    /\ IF i >= Len(files)
       THEN /\ pc' = "mask"
            /\ UNCHANGED <<error, it, i, data_all, unpacked, valid_per_pixel>>
       ELSE /\ it' = it + 1
            /\ IF ~Recognized(firmware_version)
               THEN /\ pc' = "done" /\ error' = "SystemExit"
                    /\ i' = i
                    /\ UNCHANGED <<data_all, unpacked, valid_per_pixel>>
               ELSE /\ \E d \in ContentsFor(Len(files)) :
                          /\ data_all' = d
                          /\ unpacked' = Append(unpacked, <<files[i + 1], d>>)
                          /\ valid_per_pixel' =
                                 count_valid(valid_per_pixel, d, firmware_version)
                    /\ i' = NumPixels
                    /\ pc' = "file" /\ error' = error
    /\ UNCHANGED <<args, synth_vars, unit_vars, fs_vars, cwd, listed, files,
                   tdc1, pix_c1, pix1, data1, cycle_ends, j, pair_vars, lists,
                   dcr>>

\* for i in range(len(files)): the firmware branch, the unpacking and the
\* inner loop over the pixels, which reuses the name i
DcrNextFile ==
    /\ entry = "calculate_dark_count_rate" /\ pc = "file"
    /\ IF it >= Len(files)
       THEN /\ pc' = "mask"
            /\ UNCHANGED <<error, it, i, data_all, unpacked, valid_per_pixel>>
       ELSE /\ it' = it + 1
            /\ IF ~Recognized(firmware_version)
               THEN /\ pc' = "done" /\ error' = "SystemExit"
                    /\ i' = it
                    /\ UNCHANGED <<data_all, unpacked, valid_per_pixel>>
               ELSE /\ \E d \in ContentsFor(Len(files)) :
                          /\ data_all' = d
                          /\ unpacked' = Append(unpacked, <<files[it + 1], d>>)
                          /\ valid_per_pixel' =
                                 count_valid(valid_per_pixel, d, firmware_version)
                    /\ i' = NumPixels - 1
                    /\ pc' = "file" /\ error' = error
    /\ UNCHANGED <<args, synth_vars, unit_vars, fs_vars, cwd, listed, files, tdc1, pix_c1, pix1,
                   data1, cycle_ends, j, pair_vars, lists, dcr>>

\* the mask, the average over the pixels and the division by len(files)
DcrFinish ==
    /\ entry = "calculate_dark_count_rate" /\ pc = "mask"
    /\ \E mask \in Masks :
          /\ valid_per_pixel' = apply_mask(valid_per_pixel, mask)
          /\ dcr' = average_rate(apply_mask(valid_per_pixel, mask), Len(files))
    /\ pc' = "done"
    /\ UNCHANGED <<args, synth_vars, unit_vars, fs_vars, cwd, listed, error, files, it, i, file_vars,
                   j, pair_vars, lists>>

(***************************************************************************)
(* The specification.                                                      *)
(***************************************************************************)
Next ==
    \/ CheckTypes
    \/ ChangeDir
    \/ ListFiles
    \/ NextFile
    \/ NextPair
    \/ RecordPair
    \/ SaveMessage
    \/ EnterOutDir
    \/ WriteCsv
    \/ DcrCheckTypes
    \/ DcrChangeDir
    \/ DcrListFiles
    \/ DcrNextFile
    \/ DcrFinish

Spec == Init /\ [][Next]_vars

(***************************************************************************)
(* The pixel lookup alone: tdc1, pix_c1 = np.argwhere(pix_coor ==          *)
(* pixels[0])[0] for every pixel of the sensor and both firmware tags.     *)
(***************************************************************************)
InitPix ==
    /\ entry = "pixel_lookup"
    /\ \E p \in 0..(NumPixels - 1) : pixels = <<p>>
    /\ firmware_version \in {fw \in Firmwares : Recognized(fw)}
    /\ daughterboard_number = PyStr("NL11")
    /\ motherboard_number = PyStr("#33")
    /\ delta_window = 0 /\ rewrite = FALSE /\ dir_files = <<>>
    /\ out_dir_exists = FALSE /\ out_dir = {}
    /\ out_dir_existed = FALSE /\ out_dir_before = {}
    /\ known_cycles = <<>> /\ units = <<>>
    /\ InitLocals

LookupPixel ==
    /\ entry = "pixel_lookup" /\ pc = "start"
    /\ LET ck == coordinates(firmware_version, pixels[1])
       IN  tdc1' = ck[1] /\ pix_c1' = ck[2]
    /\ pc' = "done"
    /\ UNCHANGED <<args, synth_vars, unit_vars, fs_vars, cwd, listed, error, files, it, i, data_all,
                   pix1, data1, cycle_ends, unpacked, j, pair_vars, lists,
                   dcr_vars>>

SpecPix == InitPix /\ [][LookupPixel]_vars

(***************************************************************************)
(* The unpacker on a synthetic file: a file of two channels is written     *)
(* from known cycles, then unpacked as collect_cross_talk unpacks a file.  *)
(***************************************************************************)
InitUnpack ==
    /\ entry = "unpack_round_trip"
    /\ known_cycles \in [1..SynthCycles -> SyntheticPatterns]
    /\ pixels = <<0, 1>>
    /\ firmware_version = PyStr("2212s")
    /\ daughterboard_number = PyStr("NL11")
    /\ motherboard_number = PyStr("#33")
    /\ delta_window = 0 /\ rewrite = FALSE /\ dir_files = Listing(1)
    /\ out_dir_exists = FALSE /\ out_dir = {}
    /\ out_dir_existed = FALSE /\ out_dir_before = {}
    /\ units = <<>>
    /\ InitLocals

\* the synthetic file is written: every record as a word, every cycle
\* closed by the sentinel word
WriteSynthetic ==
    /\ entry = "unpack_round_trip" /\ pc = "start"
    /\ file_words' = pack(known_cycles)
    /\ files' = dir_files
    /\ pc' = "file"
    /\ UNCHANGED <<args, known_cycles, unit_vars, fs_vars, cwd, listed, error, it, i,
                   file_vars, j, pair_vars, lists, dcr_vars>>

\* data_all = f_up.unpack_binary_data(file, ...), then the cycle boundaries
UnpackSynthetic ==
    /\ entry = "unpack_round_trip" /\ pc = "file"
    /\ LET d == unpack_binary_data(file_words, Len(known_cycles[1].c0))
       IN  /\ data_all' = d
           /\ unpacked' = Append(unpacked, <<files[1], d>>)
           /\ cycle_ends' = cycle_ends_of(d)
    /\ pc' = "done"
    /\ UNCHANGED <<args, synth_vars, unit_vars, fs_vars, cwd, listed, error, files, it, i,
                   tdc1, pix_c1, pix1, data1, j, pair_vars, lists, dcr_vars>>

SpecUnpack == InitUnpack /\ [][WriteSynthetic \/ UnpackSynthetic]_vars

(***************************************************************************)
(* The body of the file loop as independently scheduled work units: one    *)
(* unit per file computes the rows of its file, and the units add their    *)
(* rows to the seven lists one at a time.                                  *)
(***************************************************************************)
\* mutant: the differences counted into a total shared between the files
RECURSIVE pair_rows_shared_deltas(_, _, _)
pair_rows_shared_deltas(f, d, jj) ==
    IF jj >= Len(pixels) THEN <<>>
    ELSE IF skip_pair(pixels[jj + 1], pixels[1])
    THEN pair_rows_shared_deltas(f, d, jj + 1)
    ELSE LET c1 == coordinates(firmware_version, pixels[1])
             d1 == pixel_data(d, c1[1], pixel_rows(d, c1[1], c1[2]))
             c2 == coordinates(firmware_version, pixels[jj + 1])
             d2 == pixel_data(d, c2[1], pixel_rows(d, c2[1], c2[2]))
             dl == engine_call(d1, d2, cycle_ends_of(d), delta_window)
             total == Len(dl) + IF deltas_list = <<>> THEN 0
                                ELSE deltas_list[Len(deltas_list)]
         IN  IF no_valid(count_positive(d1))
             THEN pair_rows_shared_deltas(f, d, jj + 1)
             ELSE << <<f, pixels[1], pixels[jj + 1], count_positive(d1),
                       count_positive(d2), total,
                       ct_of(total, count_positive(d1), count_positive(d2))>> >>
                  \o pair_rows_shared_deltas(f, d, jj + 1)

\* the rows the loop body appends for the file f unpacked to d, from the
\* pair index jj on: <<file, pixel 1, pixel 2, timestamps 1, timestamps 2,
\* deltas, CT>>
RECURSIVE pair_rows(_, _, _)
pair_rows(f, d, jj) ==
    IF jj >= Len(pixels) THEN <<>>
    ELSE IF skip_pair(pixels[jj + 1], pixels[1]) THEN pair_rows(f, d, jj + 1)
    ELSE LET c1 == coordinates(firmware_version, pixels[1])
             d1 == pixel_data(d, c1[1], pixel_rows(d, c1[1], c1[2]))
             c2 == coordinates(firmware_version, pixels[jj + 1])
             d2 == pixel_data(d, c2[1], pixel_rows(d, c2[1], c2[2]))
             dl == engine_call(d1, d2, cycle_ends_of(d), delta_window)
         IN  IF no_valid(count_positive(d1)) THEN pair_rows(f, d, jj + 1)
             ELSE << <<f, pixels[1], pixels[jj + 1], count_positive(d1),
                       count_positive(d2), Len(dl),
                       ct_of(Len(dl), count_positive(d1), count_positive(d2))>> >>
                  \o pair_rows(f, d, jj + 1)

\* the seven lists as one sequence of rows
rows_of(fl, p1, p2, t1, t2, dl, ct) ==
    [n \in 1..Len(fl) |-> <<fl[n], p1[n], p2[n], t1[n], t2[n], dl[n], ct[n]>>]

\* the lists are free: no unit is writing them
may_write(ws) == ws = {}

IdleUnit == [phase |-> "idle", data |-> NoData, rows |-> <<>>, seen |-> <<>>]

InitUnits ==
    /\ entry = "work_units"
    /\ \E n \in 1..MaxFiles : dir_files = Listing(n)
    /\ pixels \in PixelLists
    /\ delta_window \in Windows
    /\ firmware_version \in {fw \in Firmwares : Recognized(fw)}
    /\ daughterboard_number = PyStr("NL11")
    /\ motherboard_number = PyStr("#33")
    /\ rewrite = FALSE
    /\ out_dir_exists = FALSE /\ out_dir = {}
    /\ out_dir_existed = FALSE /\ out_dir_before = {}
    /\ known_cycles = <<>>
    /\ units = [k \in DOMAIN dir_files |-> IdleUnit]
    /\ InitLocals

\* a unit unpacks its file and computes the file's rows
UnitCompute(k) ==
    /\ entry = "work_units" /\ units[k].phase = "idle"
    /\ \E d \in ContentsFor(Len(dir_files)) :
          /\ units' = [units EXCEPT ![k] =
                          [phase |-> "computed", data |-> d,
                           rows |-> pair_rows(dir_files[k], d, 1),
                           seen |-> <<>>]]
          /\ unpacked' = Append(unpacked, <<dir_files[k], d>>)
    /\ UNCHANGED <<args, synth_vars, writers, fs_vars, cwd, listed, pc, error,
                   files, it, i, data_all, tdc1, pix_c1, pix1, data1,
                   cycle_ends, j, pair_vars, lists, dcr_vars>>

\* a unit takes the lists when no unit is writing them, and reads them
MergeBegin(k) ==
    /\ entry = "work_units" /\ units[k].phase = "computed"
    /\ may_write(writers)
    /\ writers' = writers \cup {k}
    /\ units' = [units EXCEPT ![k].phase = "merging",
                              ![k].seen = rows_of(file_name_list, pix1_list,
                                                  pix2_list, timestamps_list1,
                                                  timestamps_list2, deltas_list,
                                                  ct_list)]
    /\ UNCHANGED <<args, synth_vars, fs_vars, cwd, listed, pc, error, files, it,
                   i, file_vars, j, pair_vars, lists, dcr_vars>>

\* the unit writes the lists it read with its rows appended, and lets go
MergeEnd(k) ==
    /\ entry = "work_units" /\ units[k].phase = "merging"
    /\ LET all == units[k].seen \o units[k].rows
       IN  /\ file_name_list' = Col(all, 1)
           /\ pix1_list' = Col(all, 2)
           /\ pix2_list' = Col(all, 3)
           /\ timestamps_list1' = Col(all, 4)
           /\ timestamps_list2' = Col(all, 5)
           /\ deltas_list' = Col(all, 6)
           /\ ct_list' = Col(all, 7)
    /\ writers' = writers \ {k}
    /\ units' = [units EXCEPT ![k].phase = "merged"]
    /\ UNCHANGED <<args, synth_vars, fs_vars, cwd, listed, pc, error, files, it,
                   i, file_vars, j, pair_vars, dcr_vars>>

NextUnits ==
    \E k \in DOMAIN units : UnitCompute(k) \/ MergeBegin(k) \/ MergeEnd(k)

SpecUnits == InitUnits /\ [][NextUnits]_vars

(***************************************************************************)
(* Properties.                                                             *)
(***************************************************************************)
\* the cycle a row offset of a channel array lies in: the c with
\* cycle_ends[c] <= offset < cycle_ends[c + 1]
CycleOfOffset(boundaries, offset) ==
    {c \in 1..(Len(boundaries) - 1) :
        boundaries[c] <= offset /\ offset < boundaries[c + 1]}

\* the <<cycle, offset in data1, offset in data2>> candidates of the engine
SliceTriples(a, b, boundaries) ==
    {t \in (1..(Len(boundaries) - 1)) \X (0..(Len(a) - 1)) \X (0..(Len(b) - 1)) :
        /\ boundaries[t[1]] <= t[2] /\ t[2] < boundaries[t[1] + 1]
        /\ boundaries[t[1]] <= t[3] /\ t[3] < boundaries[t[1] + 1]}

BagOfSeq(s) == [v \in Range(s) |-> Cardinality({n \in DOMAIN s : s[n] = v})]

\* { b - a : a in a's slice of cycle c, b in b's slice of cycle c,
\*   |b - a| <= window }, over every cycle c, as a multiset
ReferenceBag(a, b, boundaries, window) ==
    LET T == {t \in SliceTriples(a, b, boundaries) :
                 Abs(b[t[3] + 1] - a[t[2] + 1]) <= window}
    IN  [v \in {b[t[3] + 1] - a[t[2] + 1] : t \in T} |->
            Cardinality({t \in T : b[t[3] + 1] - a[t[2] + 1] = v})]

\* C1: every difference the engine counts for a pair joins a record of
\* pixels[0] and a record of pixels[j] whose row offsets in their channel
\* arrays lie in the same cycle, for the series and boundaries that
\* collect_cross_talk hands to the engine.
C1_SameCycleOnly ==
    (entry = "collect_cross_talk" /\ pc = "record") =>
        \A n \in DOMAIN difference_pairs(data1, data2, cycle_ends, delta_window) :
            LET p == difference_pairs(data1, data2, cycle_ends, delta_window)[n]
            IN  CycleOfOffset(cycle_ends, pix1[p[1] + 1])
                    = CycleOfOffset(cycle_ends, pix2[p[2] + 1])

\* C2: every difference returned satisfies |difference| <= delta_window, and
\* a candidate of a cycle whose absolute value is exactly delta_window is
\* among the differences returned.
C2_WindowInclusive ==
    (entry = "collect_cross_talk" /\ pc = "record") =>
        /\ \A n \in DOMAIN deltas : Abs(deltas[n]) <= delta_window
        /\ \A t \in SliceTriples(data1, data2, cycle_ends) :
              Abs(data2[t[3] + 1] - data1[t[2] + 1]) = delta_window
                  => (data2[t[3] + 1] - data1[t[2] + 1]) \in Range(deltas)

\* C2 witness: a returned difference whose absolute value is the window.
C2_Witness ==
    /\ entry = "collect_cross_talk" /\ pc = "record"
    /\ \E n \in DOMAIN deltas : Abs(deltas[n]) = delta_window

\* C3: the multiset of differences returned equals the reference multiset
\* over the cycles' slices, and the scenario A = [100, 5100, 9999],
\* B = [150, 5200], one cycle, window 200 yields exactly {50, 100}.
C3_ReferenceMultiset ==
    (entry = "collect_cross_talk" /\ pc = "record") =>
        /\ BagOfSeq(deltas)
               = ReferenceBag(data1, data2, cycle_ends, delta_window)
        /\ (/\ data1 = <<100, 5100, 9999>> /\ data2 = <<150, 5200>>
            /\ Len(cycle_ends) = 2 /\ delta_window = 200)
               => BagOfSeq(deltas) = (50 :> 1) @@ (100 :> 1)

\* C3 witness: the scenario is run and returns 50 and 100.
C3_Witness ==
    /\ entry = "collect_cross_talk" /\ pc = "record"
    /\ data1 = <<100, 5100, 9999>> /\ data2 = <<150, 5200>>
    /\ Len(cycle_ends) = 2 /\ delta_window = 200
    /\ deltas = <<50, 100>>

\* the positions j (1-based here) of the pairs (pixels[0], pixels[j])
PairPositions == 2..Len(pixels)

\* the rows of the summary table written for file f and second pixel p
RowsFor(f, p) ==
    {n \in DOMAIN file_name_list : file_name_list[n] = f /\ pix2_list[n] = p}

\* the valid (timestamp > 0) records of pixel p in the unpacked file d
ValidRecords(d, p) ==
    LET ck == coordinates(firmware_version, p)
        rows == channel(d, ck[1])
    IN  {n \in DOMAIN rows : rows[n][1] = ck[2] /\ rows[n][2] > 0}

\* the file loop is over and the run goes on to save
LoopOver == pc \in {"save", "outdir", "write"} \/ (pc = "done" /\ error = "none")

ValidConfiguration ==
    /\ isinstance_str(daughterboard_number)
    /\ isinstance_str(motherboard_number)
    /\ Recognized(firmware_version)

\* C4: a pair (pixels[0], pixels[j]) with pixels[j] <= pixels[0] never gets a
\* summary row; a run that has reached the pair loop raises no error; and
\* when the file loop is over every file was unpacked and every other pair
\* of every file with a valid record of pixels[0] has its row.
C4_SkippedPairs ==
    entry = "collect_cross_talk" =>
        /\ \A jj \in PairPositions :
              (pixels[jj] <= pixels[1]) =>
                  (\A n \in DOMAIN pix2_list :
                       ~(pix1_list[n] = pixels[1] /\ pix2_list[n] = pixels[jj]))
        /\ unpacked # <<>> => error = "none"
        /\ (LoopOver /\ files # <<>>) =>
              /\ Len(unpacked) = Len(files)
              /\ \A k \in DOMAIN unpacked : \A jj \in PairPositions :
                    (/\ pixels[jj] > pixels[1]
                     /\ ValidRecords(unpacked[k][2], pixels[1]) # {})
                        => Cardinality(RowsFor(unpacked[k][1], pixels[jj]))
                               = Cardinality({j2 \in PairPositions :
                                                 pixels[j2] = pixels[jj]})

\* C4 witness: a run over two files whose first pair is skipped and whose
\* second pair has a row for either file.
C4_Witness ==
    /\ entry = "collect_cross_talk" /\ pc = "done" /\ error = "none"
    /\ pixels = <<1, 0, 4>> /\ Len(files) = 2
    /\ file_name_list = files /\ pix2_list = <<4, 4>>

\* C5: a run whose firmware_version is not one of the two recognized tags
\* ends in a fatal configuration error, raised before the working directory
\* is changed, before the directory is listed and before any file is
\* unpacked, whatever the file set.
C5_FirmwareRejectedFirst ==
    ~Recognized(firmware_version) =>
        /\ cwd = "start" /\ ~listed /\ unpacked = <<>>
        /\ pc # "start" => (pc = "done" /\ error \in {"TypeError", "SystemExit"})

\* C6: a run whose daughterboard_number or motherboard_number is not a
\* string aborts with TypeError before the working directory is changed,
\* before any file is listed or unpacked, and leaves the output folder and
\* its artifacts as they were.
C6_TypeErrorFirst ==
    (~isinstance_str(daughterboard_number) \/ ~isinstance_str(motherboard_number)) =>
        /\ cwd = "start" /\ ~listed /\ unpacked = <<>>
        /\ out_dir_exists = out_dir_existed /\ out_dir = out_dir_before
        /\ csv_writes = 0
        /\ pc # "start" => (pc = "done" /\ error = "TypeError")

\* C6 witness: collect_cross_talk has aborted on a motherboard_number that
\* is not a string, next to an existing artifact.
C6_Witness ==
    /\ entry = "collect_cross_talk" /\ pc = "done" /\ error = "TypeError"
    /\ isinstance_str(daughterboard_number)
    /\ ~isinstance_str(motherboard_number)
    /\ out_dir # {} /\ dir_files # <<>>

\* C7: a run with rewrite = false that finds an artifact of the same file
\* set unpacks no file and leaves that artifact unchanged.
C7_NoReprocessing ==
    (entry = "collect_cross_talk" /\ ~rewrite /\ out_dir_before # {}) =>
        unpacked = <<>> /\ out_dir = out_dir_before

\* C8 as stated: a run with rewrite = true on a non-empty file set has, when
\* it ends, unpacked every file and left the artifact named after the first
\* and the last file in the output folder.
C8_AlwaysRecomputes ==
    (/\ entry = "collect_cross_talk" /\ rewrite /\ dir_files # <<>>
     /\ pc = "done") =>
        /\ [n \in DOMAIN unpacked |-> unpacked[n][1]] = dir_files
        /\ out_dir_exists
        /\ \E a \in out_dir :
              a.name = <<"CT_data", dir_files[1], dir_files[Len(dir_files)]>>

\* C8 amended: the same for a run with a valid configuration (string board
\* numbers and a recognized firmware tag); the artifact holds this run's
\* table, whether or not the folder or an artifact existed before.
C8_RecomputesWhenValid ==
    (/\ entry = "collect_cross_talk" /\ rewrite /\ dir_files # <<>>
     /\ ValidConfiguration /\ pc = "done") =>
        /\ [n \in DOMAIN unpacked |-> unpacked[n][1]] = dir_files
        /\ out_dir_exists
        /\ \E a \in out_dir :
              /\ a.name = <<"CT_data", dir_files[1], dir_files[Len(dir_files)]>>
              /\ a.table.File = file_name_list
              /\ a.table # OldTable

\* C8 witness: a run with rewrite = true over two files has ended and has
\* replaced the artifact of an earlier run.
C8_Witness ==
    /\ entry = "collect_cross_talk" /\ rewrite /\ pc = "done"
    /\ Len(dir_files) = 2 /\ Len(unpacked) = 2
    /\ out_dir_before # {} /\ out_dir # out_dir_before
    /\ \E a \in out_dir : a.name = <<"CT_data", "a.dat", "b.dat">>

\* the rows one file contributes: one per pair whose second pixel exceeds
\* the first, in the order of the pairs
RECURSIVE FileTable(_, _, _)
FileTable(f, d, jj) ==
    IF jj > Len(pixels) THEN Table(<<>>, <<>>, <<>>, <<>>, <<>>, <<>>, <<>>)
    ELSE LET rest == FileTable(f, d, jj + 1)
             c1 == coordinates(firmware_version, pixels[1])
             c2 == coordinates(firmware_version, pixels[jj])
             n1 == Cardinality(ValidRecords(d, pixels[1]))
             n2 == Cardinality(ValidRecords(d, pixels[jj]))
             nd == Len(engine_call(
                       pixel_data(d, c1[1], pixel_rows(d, c1[1], c1[2])),
                       pixel_data(d, c2[1], pixel_rows(d, c2[1], c2[2])),
                       cycle_ends_of(d), delta_window))
         IN  IF pixels[jj] <= pixels[1] THEN rest
             ELSE Table(<<f>> \o rest.File, <<pixels[1]>> \o rest.Pixel1,
                        <<pixels[jj]>> \o rest.Pixel2,
                        <<n1>> \o rest.Timestamps1, <<n2>> \o rest.Timestamps2,
                        <<nd>> \o rest.Deltas,
                        << <<100 * nd, n1 + n2>> >> \o rest.CT)

\* the table of a run over the unpacked files us, in order
RECURSIVE ExpectedTable(_)
ExpectedTable(us) ==
    IF us = <<>> THEN Table(<<>>, <<>>, <<>>, <<>>, <<>>, <<>>, <<>>)
    ELSE LET h == FileTable(us[1][1], us[1][2], 2)
             r == ExpectedTable(Tail(us))
         IN  Table(h.File \o r.File, h.Pixel1 \o r.Pixel1,
                   h.Pixel2 \o r.Pixel2, h.Timestamps1 \o r.Timestamps1,
                   h.Timestamps2 \o r.Timestamps2, h.Deltas \o r.Deltas,
                   h.CT \o r.CT)

\* C9: a file without a valid record of pixels[0] gets no summary row for
\* any pair and raises no error, and when the file loop is over every file
\* was unpacked and the table holds, in file order, exactly the rows of the
\* files that have a valid record of pixels[0].
C9_EmptyFileSkipped ==
    entry = "collect_cross_talk" =>
        /\ \A k \in DOMAIN unpacked :
              (ValidRecords(unpacked[k][2], pixels[1]) = {}) =>
                  (\A n \in DOMAIN file_name_list :
                       file_name_list[n] # unpacked[k][1])
        /\ (\E k \in DOMAIN unpacked :
               ValidRecords(unpacked[k][2], pixels[1]) = {}) => error = "none"
        /\ (LoopOver /\ files # <<>>) =>
              /\ Len(unpacked) = Len(files)
              /\ Table(file_name_list, pix1_list, pix2_list, timestamps_list1,
                       timestamps_list2, deltas_list, ct_list)
                     = ExpectedTable(SelectSeq(unpacked,
                           LAMBDA u : ValidRecords(u[2], pixels[1]) # {}))

\* C9 witness: the first of two files has no valid record of pixels[0], the
\* second has, and the run ended with the rows of the second file only.
C9_Witness ==
    /\ entry = "collect_cross_talk" /\ pc = "done" /\ error = "none"
    /\ Len(unpacked) = 2
    /\ ValidRecords(unpacked[1][2], pixels[1]) = {}
    /\ ValidRecords(unpacked[2][2], pixels[1]) # {}
    /\ file_name_list # <<>>
    /\ \A n \in DOMAIN file_name_list : file_name_list[n] = "b.dat"

\* C10: for either recognized tag the table is a bijection from the pixels
\* 0..255 onto (channel 0..63, index 0..3): the pixel looked up occurs at
\* exactly one position, which is the one the lookup returns; both tables
\* have the same shape and hold the same 256 pixels, and they differ.
C10_PixelTableBijective ==
    entry = "pixel_lookup" =>
        LET tab == pix_coor_of(firmware_version)
            p == pixels[1]
            Channels == 0..(NumChannels - 1)
            Indexes == 0..(PixelsPerChannel - 1)
        IN  /\ Cardinality(argwhere(tab, p)) = 1
            /\ pc = "done" =>
                  /\ tdc1 \in Channels /\ pix_c1 \in Indexes
                  /\ tab[tdc1][pix_c1] = p
                  /\ argwhere(tab, p) = {<<tdc1, pix_c1>>}
            /\ \A t \in {pix_coor_2212s, pix_coor_2212b} :
                  /\ DOMAIN t = Channels
                  /\ \A c \in Channels : DOMAIN t[c] = Indexes
                  /\ {t[c][k] : c \in Channels, k \in Indexes}
                         = 0..(NumPixels - 1)
            /\ pix_coor_2212s # pix_coor_2212b

\* C10 witness: pixel 65 is looked up under '2212s' and found at channel 1,
\* index 1 (under '2212b' it is at channel 16, index 1).
C10_Witness ==
    /\ entry = "pixel_lookup" /\ pc = "done"
    /\ pixels = <<65>> /\ EqStr(firmware_version, "2212s")
    /\ tdc1 = 1 /\ pix_c1 = 1
    /\ pix_coor_2212b[16][1] = 65

\* the row offsets of the cycle-end sentinels of a channel array
SentinelOffsets(ch) == {n - 1 : n \in {m \in DOMAIN ch : ch[m][1] = Sentinel}}

\* the rows of cycle c: from the row after the previous sentinel (row 0 for
\* the first cycle) up to the cycle's own sentinel
CycleRange(boundaries, c) ==
    (IF c = 1 THEN 0 ELSE boundaries[c] + 1) .. boundaries[c + 1]

\* C11: the boundary sequence of the file in hand starts with 0, goes on
\* with the row offset of every sentinel of channel 0 in increasing order, is
\* non-decreasing, and its consecutive offsets cut the channel array into
\* contiguous, pairwise disjoint cycle ranges, one per sentinel, each closed
\* by its own sentinel and holding no other; every record row is in the
\* half-open slice of exactly that cycle.
C11_BoundarySequence ==
    (entry = "collect_cross_talk" /\ unpacked # <<>>) =>
        LET ch == channel(data_all, 0)
            Cycles == 1..(Len(cycle_ends) - 1)
        IN  /\ cycle_ends # <<>> /\ cycle_ends[1] = 0
            /\ Len(cycle_ends) = 1 + Cardinality(SentinelOffsets(ch))
            /\ {cycle_ends[k] : k \in 2..Len(cycle_ends)} = SentinelOffsets(ch)
            /\ \A k \in 2..(Len(cycle_ends) - 1) : cycle_ends[k] < cycle_ends[k + 1]
            /\ \A k \in Cycles : cycle_ends[k] <= cycle_ends[k + 1]
            /\ \A o \in 0..(Len(ch) - 1) :
                  Cardinality({c \in Cycles : o \in CycleRange(cycle_ends, c)}) = 1
            /\ \A c \in Cycles :
                  /\ CycleRange(cycle_ends, c) # {}
                  /\ CycleRange(cycle_ends, c) \cap SentinelOffsets(ch)
                         = {cycle_ends[c + 1]}
            /\ \A o \in (0..(Len(ch) - 1)) \ SentinelOffsets(ch) : \A c \in Cycles :
                  (o \in CycleRange(cycle_ends, c))
                      <=> (cycle_ends[c] <= o /\ o < cycle_ends[c + 1])

\* C11 witness: a file of two cycles, the first without a valid event in
\* channel 0, has the boundaries 0, 2, 5.
C11_Witness ==
    /\ entry = "collect_cross_talk" /\ pc = "pair"
    /\ cycle_ends = <<0, 2, 5>>
    /\ \A n \in 1..2 : channel(data_all, 0)[n][2] = -1

\* the rows of a channel array between the sentinels, cycle after cycle
RECURSIVE SplitCycles(_)
SplitCycles(ch) ==
    IF ch = <<>> THEN <<>>
    ELSE LET ends == {n \in DOMAIN ch : ch[n] = SentinelRow}
         IN  IF ends = {} THEN <<ch>>
             ELSE LET e == CHOOSE n \in ends : \A m \in ends : n <= m
                  IN  <<SubSeq(ch, 1, e - 1)>>
                          \o SplitCycles(SubSeq(ch, e + 1, Len(ch)))

\* C12: unpacking the synthetic file of two channels gives, for either
\* channel, exactly the records of its cycles in their word order, each cycle
\* closed by one sentinel row, so as many cycle boundaries as cycles in
\* either channel, and the boundary sequence has one offset per cycle after
\* the leading 0.
C12_UnpackRoundTrip ==
    (entry = "unpack_round_trip" /\ pc = "done") =>
        /\ SplitCycles(data_all.c0)
               = [c \in 1..Len(known_cycles) |-> known_cycles[c].c0]
        /\ SplitCycles(data_all.c1)
               = [c \in 1..Len(known_cycles) |-> known_cycles[c].c1]
        /\ \A ch \in {data_all.c0, data_all.c1} :
              /\ Cardinality(SentinelOffsets(ch)) = Len(known_cycles)
              /\ ch[Len(ch)] = SentinelRow
        /\ Len(cycle_ends) = Len(known_cycles) + 1

\* C12 witness: a file of three cycles whose channels differ was unpacked to
\* three boundaries per channel, and a word with every field bit set came
\* back as the record it was written from.
C12_Witness ==
    /\ entry = "unpack_round_trip" /\ pc = "done"
    /\ Len(known_cycles) = 3
    /\ known_cycles[1].c0 # known_cycles[1].c1
    /\ known_cycles[2].c0[1] = <<3, TimestampCodeRange - 1>>
    /\ data_all.c0[4] = <<3, TimestampCodeRange - 1>>
    /\ Cardinality(SentinelOffsets(data_all.c0)) = 3
    /\ Cardinality(SentinelOffsets(data_all.c1)) = 3

\* the files of the merged units with their contents, in listing order
MergedFiles ==
    SelectSeq([k \in DOMAIN units |-> <<dir_files[k], units[k].data, units[k].phase>>],
              LAMBDA u : u[3] = "merged")

\* the rows of sequential processing of the unpacked files us
SequentialRows(us) ==
    LET t == ExpectedTable(SelectSeq(us,
                 LAMBDA u : ValidRecords(u[2], pixels[1]) # {}))
    IN  rows_of(t.File, t.Pixel1, t.Pixel2, t.Timestamps1, t.Timestamps2,
                t.Deltas, t.CT)

ListsTable ==
    Table(file_name_list, pix1_list, pix2_list, timestamps_list1,
          timestamps_list2, deltas_list, ct_list)

C14_States ==
    entry = "collect_cross_talk" =>
        /\ unpacked = <<>> => ListsTable = Table(<<>>, <<>>, <<>>, <<>>, <<>>, <<>>, <<>>)
        /\ csv_writes <= 1
        /\ csv_writes = 1 =>
              /\ pc = "done" /\ error = "none"
              /\ it = Len(files) /\ Len(unpacked) = Len(files)
              /\ \E a \in out_dir :
                    a.name = artifact_name(files) /\ a.table = ListsTable
        /\ (pc = "done" /\ error = "none") => csv_writes = 1
        /\ (pc = "done" /\ error # "none") =>
              csv_writes = 0 /\ out_dir = out_dir_before

\* the steps of the lifecycle
C14_Steps ==
    entry = "collect_cross_talk" =>
        /\ lists' # lists =>
              /\ pc = "record" /\ Len(unpacked) = i + 1 /\ i < Len(files)
              /\ csv_writes = 0 /\ csv_writes' = 0
        /\ csv_writes' # csv_writes =>
              /\ pc = "write" /\ csv_writes' = csv_writes + 1
              /\ it = Len(files) /\ Len(unpacked) = Len(files)
              /\ lists' = lists
        /\ csv_writes = 1 => lists' = lists

C15_FirmwareTypeError ==
    (/\ entry = "calculate_dark_count_rate"
     /\ ~Recognized(firmware_version)
     /\ pc = "done") => error = "TypeError"

\* the records with timestamp > 0 of pixel p in all the unpacked files
RECURSIVE ValidInFiles(_, _)
ValidInFiles(us, p) ==
    IF us = <<>> THEN 0
    ELSE Cardinality(ValidRecords(Head(us)[2], p)) + ValidInFiles(Tail(us), p)

\* the pixels that have a record with timestamp > 0 in the unpacked file d,
\* read off the pixel table channel by channel
ActivePixels(d) ==
    LET tab == pix_coor_of(firmware_version)
    IN  UNION {{tab[c][channel(d, c)[n][1]] :
                   n \in {m \in DOMAIN channel(d, c) : channel(d, c)[m][2] > 0}} :
               c \in 0..(NumChannels - 1)}

\* the sum of ValidInFiles(us, p) over the pixels p of P
RECURSIVE SumValid(_, _)
SumValid(us, P) ==
    IF P = {} THEN 0
    ELSE LET p == CHOOSE q \in P : TRUE
         IN  ValidInFiles(us, p) + SumValid(us, P \ {p})

\* C16: while calculate_dark_count_rate runs over its files the unpacked
\* files are the first files of the list, each once; when it returns for a
\* non-empty list every file was unpacked once and the value is
\* S / (256 * number of files), S the valid records of the pixels outside
\* the mask over all files, the masked pixels counted as 0.
C16_DarkCountRate ==
    (entry = "calculate_dark_count_rate" /\ error = "none") =>
        /\ [n \in DOMAIN unpacked |-> unpacked[n][1]] = SubSeq(files, 1, it)
        /\ (pc = "done" /\ files # <<>>) =>
              LET Busy == UNION {ActivePixels(unpacked[n][2]) : n \in DOMAIN unpacked}
              IN  /\ [n \in DOMAIN unpacked |-> unpacked[n][1]] = files
                  /\ \A p \in Busy : ValidInFiles(unpacked, p) > 0
                  /\ \E mask \in Masks :
                        /\ \A p \in 0..(NumPixels - 1) :
                              valid_per_pixel[p] =
                                  IF p \in Busy \ mask
                                  THEN ValidInFiles(unpacked, p) ELSE 0
                        /\ dcr = <<SumValid(unpacked, Busy \ mask),
                                   NumPixels * Len(files)>>

\* C16 witness: a call over two files has returned; pixel 0 has valid
\* records and is masked, other pixels count, and the pixel loop left i at 255.
C16_Witness ==
    /\ entry = "calculate_dark_count_rate" /\ pc = "done" /\ error = "none"
    /\ Len(files) = 2 /\ Len(unpacked) = 2 /\ i = NumPixels - 1
    /\ ValidInFiles(unpacked, 0) > 0 /\ valid_per_pixel[0] = 0
    /\ dcr[1] > 0 /\ dcr[2] = 2 * NumPixels

\* the pairs <<k, jj>> of the k-th unpacked file, from the pair index jj up
\* to (not including) upto, whose second pixel exceeds the first
RECURSIVE PairKeys(_, _, _)
PairKeys(k, jj, upto) ==
    IF jj >= upto THEN <<>>
    ELSE (IF pixels[jj + 1] > pixels[1] THEN << <<k, jj>> >> ELSE <<>>)
             \o PairKeys(k, jj + 1, upto)

\* the pairs the loops have passed so far: every pair of the files done, and
\* the pairs below j of the file in hand; none for a file without a valid
\* record of pixels[0]
RECURSIVE RunKeys(_)
RunKeys(k) ==
    IF k > Len(unpacked) THEN <<>>
    ELSE LET upto == IF k = Len(unpacked) /\ pc \in {"pair", "record"}
                     THEN j ELSE Len(pixels)
         IN  (IF ValidRecords(unpacked[k][2], pixels[1]) = {} THEN <<>>
              ELSE PairKeys(k, 1, upto)) \o RunKeys(k + 1)

\* C17: at every step the seven lists have one length; their rows are, in
\* file order and within a file in increasing j, exactly one per (file, j)
\* passed so far with pixels[j] > pixels[0] and a valid record of pixels[0]
\* in the file; every row has pixel 2 > pixel 1, timestamps 1 >= 1, a CT
\* denominator timestamps 1 + timestamps 2 that is not zero, and
\* CT * (timestamps 1 + timestamps 2) = 100 * deltas.
C17_AccumulatorInvariant ==
    entry = "collect_cross_talk" =>
        LET keys == RunKeys(1)
            Rows == DOMAIN file_name_list
        IN  /\ \A l \in {pix1_list, pix2_list, timestamps_list1,
                         timestamps_list2, deltas_list} :
                  Len(l) = Len(file_name_list)
            /\ Len(ct_list) = Len(file_name_list)
            /\ Len(file_name_list) = Len(keys)
            /\ \A n \in Rows :
                  /\ file_name_list[n] = unpacked[keys[n][1]][1]
                  /\ pix1_list[n] = pixels[1]
                  /\ pix2_list[n] = pixels[keys[n][2] + 1]
                  /\ pix2_list[n] > pix1_list[n]
                  /\ timestamps_list1[n]
                         = Cardinality(ValidRecords(unpacked[keys[n][1]][2],
                                                    pix1_list[n]))
                  /\ timestamps_list2[n]
                         = Cardinality(ValidRecords(unpacked[keys[n][1]][2],
                                                    pix2_list[n]))
                  /\ timestamps_list1[n] >= 1
                  /\ ct_list[n][2] = timestamps_list1[n] + timestamps_list2[n]
                  /\ ct_list[n][2] # 0
                  /\ ct_list[n][1] * (timestamps_list1[n] + timestamps_list2[n])
                         = 100 * deltas_list[n] * ct_list[n][2]
            /\ \A n, m \in Rows :
                  n < m => \/ keys[n][1] < keys[m][1]
                           \/ keys[n][1] = keys[m][1] /\ keys[n][2] < keys[m][2]

\* C17 witness: a run over two files with the pixels 0, 4, 1 has ended with
\* four rows, two per file in the order of j, one of them with differences.
C17_Witness ==
    /\ entry = "collect_cross_talk" /\ pc = "done" /\ error = "none"
    /\ pixels = <<0, 4, 1>>
    /\ file_name_list = <<"a.dat", "a.dat", "b.dat", "b.dat">>
    /\ pix2_list = <<4, 1, 4, 1>>
    /\ \E n \in DOMAIN deltas_list : deltas_list[n] > 0 /\ ct_list[n][1] > 0

====
